---- MODULE Spec2Model ----
(***************************************************************************)
(* A model of the next-starter template: the Access Gate of                *)
(* src/middleware.ts, the GET route handlers, and the User Record Gateway  *)
(* of src/lib/supabase.ts over the remote `users` table.                   *)
(*                                                                         *)
(* Six specifications share the variables:                                 *)
(*   SpecGate    concurrent requests through the middleware dispatch;      *)
(*   Spec        overlapping gateway calls against the remote table, each  *)
(*               a call, the statement the store runs, and a return;       *)
(*   SpecDelete  the same calls, with the history of deletions kept;       *)
(*   SpecCall    one gateway call, any arguments, on any table the store   *)
(*               can hold;                                                 *)
(*   SpecRoute   concurrent GET handlers, with the gateway changing the    *)
(*               table while they are suspended;                           *)
(*   SpecBoot    module initialization from the environment, with the GET  *)
(*               handlers and the gateway.                                 *)
(***************************************************************************)
EXTENDS Integers, Sequences, FiniteSets, TLC

VARIABLES
    gpc,            \* Access Gate: slot -> where its request is
    req,            \* Access Gate: slot -> its request, [path, session]
    protectCalled,  \* Access Gate: slot -> auth.protect() was called for it
    users,          \* remote store: the rows of table `users`
    nextId,         \* remote store: how many rows it has inserted (ids, clock)
    calls,          \* gateway: slot -> the call running there: its arguments
                    \*   until the store runs it, then the pair it returns
    created,        \* history: clerkId -> row returned by the last successful
                    \*   createUser, forgotten on updateUser/deleteUser of that clerkId
    deleted,        \* history: clerkIds deleted with no createUser call since
    rekeyed,        \* history: clerkIds some updateUser payload has supplied since
                    \*   the last deleteUser of them
    tracing,        \* the histories kept in this run: "created", "deleted"
                    \*   (which stands for deleted and rekeyed)
    inflight,       \* GET handlers: slot -> the invocation running there
    env,            \* process.env: the two configuration values
    build,          \* what the build made of the import of `supabase` that
                    \*   app/api/protected/route.ts never uses: "kept" or "elided"
    boot            \* initialization of the module that exports `supabase`

vars == <<gpc, req, protectCalled, users, nextId, calls, created, deleted,
          rekeyed, tracing, inflight, env, build, boot>>

gateVars  == <<gpc, req, protectCalled>>
storeVars == <<users, nextId, calls, created, deleted, rekeyed, tracing>>
routeVars == <<inflight>>
bootVars  == <<env, build, boot>>

None == "none"

(***************************************************************************)
(* Bounds.                                                                 *)
(***************************************************************************)
MaxPathLen == 4
MaxInserts == 2

(***************************************************************************)
(* Request paths.  A path is a sequence of tokens whose concatenation is   *)
(* the pathname; the tokens are the literals the patterns of              *)
(* src/middleware.ts distinguish, and none is a prefix of another.         *)
(***************************************************************************)
Tokens == {"/", "_next", "api", "trpc", "sign-in", "sign-up", "public",
           ".", "css", "js", "on", "x"}

\* A pathname starts with "/" and holds no empty segment.
WellFormedPath(p) ==
    /\ Len(p) >= 1
    /\ p[1] = "/"
    /\ \A i \in 1..(Len(p) - 1) : ~(p[i] = "/" /\ p[i + 1] = "/")

Paths ==
    UNION { {p \in [1..n -> Tokens] : WellFormedPath(p)} : n \in 1..MaxPathLen }

IsPrefix(s, t) ==
    /\ Len(s) <= Len(t)
    /\ \A i \in 1..Len(s) : s[i] = t[i]

(***************************************************************************)
(* createRouteMatcher: each pattern is compiled as path-to-regexp does,    *)
(* anchored at both ends: a trailing wildcard group matches any rest, and  *)
(* a pattern without one matches the literal with one optional trailing    *)
(* delimiter.                                                              *)
(***************************************************************************)
PublicRoutes ==
    << <<"/">>,
       <<"/", "sign-in", "(.*)">>,
       <<"/", "sign-up", "(.*)">>,
       <<"/", "api", "/", "public", "(.*)">> >>

\* A plausible slip: the wildcard group is dropped, the pattern is exact.
MatchRouteExact(pat, path) ==
    LET wild == pat[Len(pat)] = "(.*)"
        lit  == IF wild THEN SubSeq(pat, 1, Len(pat) - 1) ELSE pat
    IN  path = lit \/ path = lit \o <<"/">>

MatchRoute(pat, path) ==
    LET wild == pat[Len(pat)] = "(.*)"
        lit  == IF wild THEN SubSeq(pat, 1, Len(pat) - 1) ELSE pat
    IN  IF wild
        THEN IsPrefix(lit, path)
        ELSE path = lit \/ path = lit \o <<"/">>

isPublicRoute(path) ==
    \E i \in DOMAIN PublicRoutes : MatchRoute(PublicRoutes[i], path)

(***************************************************************************)
(* config.matcher: the two sources that select the requests the            *)
(* middleware runs on.                                                     *)
(***************************************************************************)
StaticExtensions ==
    {"html", "htm", "css", "js", "jpeg", "jpg", "webp", "png", "gif", "svg",
     "ttf", "woff", "woff2", "ico", "csv", "doc", "docx", "xls", "xlsx", "zip",
     "webmanifest"}

\* The extension alternative at position i: "." then an extension, where
\* "js" counts only when "on" does not follow it.
ExtensionAt(path, i) ==
    /\ i + 1 <= Len(path)
    /\ path[i] = "."
    /\ path[i + 1] \in StaticExtensions
    /\ path[i + 1] = "js" => ~(i + 2 <= Len(path) /\ path[i + 2] = "on")

\* The negative lookahead, taken from right after the leading "/": the rest
\* neither starts with _next nor holds "." and an extension anywhere.
NegativeLookahead(path) ==
    /\ ~(Len(path) >= 2 /\ path[2] = "_next")
    /\ ~(\E i \in 2..Len(path) : ExtensionAt(path, i))

\* The first matcher source: any path the lookahead lets through.
MatcherApp(path) == path[1] = "/" /\ NegativeLookahead(path)

\* The second matcher source: any path under /api or /trpc.
MatcherApi(path) ==
    path[1] = "/" /\ Len(path) >= 2 /\ path[2] \in {"api", "trpc"}

MatcherSelects(path) == MatcherApp(path) \/ MatcherApi(path)

(***************************************************************************)
(* The middleware callback.  Every request runs as its own task, so        *)
(* several are in flight at once; each slot holds one of them.  The        *)
(* callback suspends at `await auth.protect()`, and the other requests     *)
(* move on while it waits.  The requests share no state.                   *)
(***************************************************************************)
RequestSlots == {1, 2}

\* The paths a slot's requests carry.  The first slot ranges over every
\* path; the second carries one of each kind of path (public exactly,
\* public by wildcard, protected, not selected by config.matcher), so that
\* the product of the slots stays small.
BackgroundPaths ==
    {<<"/">>, <<"/", "sign-in">>, <<"/", "x">>, <<"/", "_next">>}

SlotPaths(i) == IF i = 1 THEN Paths ELSE BackgroundPaths

\* auth.protect() returns normally iff the request carries a valid session;
\* otherwise the identity provider ends the request (redirect, 401 or 404).
protect(session) == session

\* A plausible slip: the test on isPublicRoute is inverted.
MiddlewareCallbackInverted(path) ==
    IF isPublicRoute(path) THEN "protecting" ELSE "proceed"

\* The callback up to its first suspension: it calls auth.protect() and
\* waits for it on a non-public path, and returns at once on a public one.
MiddlewareCallback(path) ==
    IF ~isPublicRoute(path) THEN "protecting" ELSE "proceed"

NoRequest == [path |-> <<>>, session |-> FALSE]

\* A request arrives in a free slot.
Receive(i, p, s) ==
    /\ gpc[i] = "idle"
    /\ req' = [req EXCEPT ![i] = [path |-> p, session |-> s]]
    /\ gpc' = [gpc EXCEPT ![i] = "received"]
    /\ protectCalled' = [protectCalled EXCEPT ![i] = FALSE]
    /\ UNCHANGED <<storeVars, bootVars, routeVars>>

\* config.matcher does not select the path: the middleware is not invoked.
SkipMiddleware(i) ==
    /\ gpc[i] = "received"
    /\ ~MatcherSelects(req[i].path)
    /\ gpc' = [gpc EXCEPT ![i] = "proceed"]
    /\ UNCHANGED <<req, protectCalled, storeVars, bootVars, routeVars>>

\* config.matcher selects the path: the callback runs until it returns or
\* suspends on auth.protect().
RunMiddleware(i) ==
    /\ gpc[i] = "received"
    /\ MatcherSelects(req[i].path)
    /\ LET to == MiddlewareCallback(req[i].path)
       IN  /\ gpc' = [gpc EXCEPT ![i] = to]
           /\ protectCalled' = [protectCalled EXCEPT ![i] = (to = "protecting")]
    /\ UNCHANGED <<req, storeVars, bootVars, routeVars>>

\* auth.protect() settles: the callback resumes and returns, or the
\* identity provider ends the request.
ProtectSettles(i) ==
    /\ gpc[i] = "protecting"
    /\ gpc' = [gpc EXCEPT ![i] =
                  IF protect(req[i].session) THEN "proceed" ELSE "rejected"]
    /\ UNCHANGED <<req, protectCalled, storeVars, bootVars, routeVars>>

\* The route's handler (page, API route or static file) executes.
RunHandler(i) ==
    /\ gpc[i] = "proceed"
    /\ gpc' = [gpc EXCEPT ![i] = "handled"]
    /\ UNCHANGED <<req, protectCalled, storeVars, bootVars, routeVars>>

\* The request ends; nothing is kept between requests.
EndRequest(i) ==
    /\ gpc[i] \in {"handled", "rejected"}
    /\ gpc' = [gpc EXCEPT ![i] = "idle"]
    /\ req' = [req EXCEPT ![i] = NoRequest]
    /\ protectCalled' = [protectCalled EXCEPT ![i] = FALSE]
    /\ UNCHANGED <<storeVars, bootVars, routeVars>>

GateNext ==
    \/ \E i \in RequestSlots :
          gpc[i] = "idle" /\ \E p \in SlotPaths(i), s \in BOOLEAN : Receive(i, p, s)
    \/ \E i \in RequestSlots : SkipMiddleware(i)
    \/ \E i \in RequestSlots : RunMiddleware(i)
    \/ \E i \in RequestSlots : ProtectSettles(i)
    \/ \E i \in RequestSlots : RunHandler(i)
    \/ \E i \in RequestSlots : EndRequest(i)

(***************************************************************************)
(* The remote store: table `users` of src/types/supabase.ts, reached       *)
(* through the supabase client.  A row is a record of the Row type; null   *)
(* is the string "null"; a payload is a function from the field names it   *)
(* supplies to their values, so an omitted field is outside its DOMAIN.    *)
(***************************************************************************)
ClerkIds == {"c1", "c2"}
Emails   == {"a@x.com", "b@x.com"}
Null     == "null"
Names    == {Null, "A"}

\* Insert payloads of createUser: Pick<Insert, 'clerkId' | 'email' | 'name'>,
\* clerkId and email required, name optional.
WellTypedInsert(u) ==
    /\ u["clerkId"] \in ClerkIds
    /\ u["email"] \in Emails
    /\ "name" \in DOMAIN u => u["name"] \in Names

InsertPayloads ==
    { u \in UNION { [d -> ClerkIds \cup Emails \cup Names] : d \in
                      { {"clerkId", "email"}, {"clerkId", "email", "name"} } } :
        WellTypedInsert(u) }

\* The values an update payload supplies for the columns the store fills in
\* on insert; no insert of the model generates them.
SuppliedIds   == {9}
SuppliedTimes == {9}

\* Update payloads of updateUser: Partial<Update>, any subset of the six
\* fields of the Update type, the empty payload included.
WellTypedUpdate(u) ==
    /\ "id" \in DOMAIN u => u["id"] \in SuppliedIds
    /\ "clerkId" \in DOMAIN u => u["clerkId"] \in ClerkIds
    /\ "email" \in DOMAIN u => u["email"] \in Emails
    /\ "name" \in DOMAIN u => u["name"] \in Names
    /\ "created_at" \in DOMAIN u => u["created_at"] \in SuppliedTimes
    /\ "updated_at" \in DOMAIN u => u["updated_at"] \in SuppliedTimes

\* The text fields and the generated fields of a payload are drawn apart
\* and joined, a payload being a function on the union of the two domains.
TextPayloads ==
    UNION { [d -> ClerkIds \cup Emails \cup Names] :
              d \in SUBSET {"clerkId", "email", "name"} }

GeneratedPayloads ==
    UNION { [d -> SuppliedIds \cup SuppliedTimes] :
              d \in SUBSET {"id", "created_at", "updated_at"} }

UpdatePayloads ==
    { u \in { t @@ g : t \in TextPayloads, g \in GeneratedPayloads } :
        WellTypedUpdate(u) }

\* The null record of a result pair: no row of the table has id 0.
NullData ==
    [id |-> 0, clerkId |-> Null, email |-> Null, name |-> Null,
     created_at |-> 0, updated_at |-> 0]

\* The schema's uniqueness constraint on clerkId.
UniqueClerkId(table) ==
    \A r1, r2 \in table : r1.clerkId = r2.clerkId => r1 = r2

\* The schema's primary key: id.
PrimaryKeyId(table) ==
    \A r1, r2 \in table : r1.id = r2.id => r1 = r2

\* .eq('clerkId', clerkId): the filter of select, update and delete.
EqClerkId(table, clerkId) == {r \in table : r.clerkId = clerkId}

\* The rows an update statement reaches.  The store has no statement for a
\* body without columns: it answers such an update with no row and changes
\* none, whatever the filter.
UpdateTargets(rows, userData) == IF DOMAIN userData = {} THEN {} ELSE rows

\* A plausible slip: maybeSingle() in place of single(), for which zero rows
\* is no error.
maybeSingle(rows) ==
    IF Cardinality(rows) = 1
    THEN [data |-> CHOOSE r \in rows : TRUE, error |-> None]
    ELSE [data |-> NullData, error |-> IF rows = {} THEN None ELSE "PGRST116"]

\* .single(): exactly one row is the record; zero or several rows is the
\* client's error PGRST116 and a null record.
Single(rows) ==
    IF Cardinality(rows) = 1
    THEN [data |-> CHOOSE r \in rows : TRUE, error |-> None]
    ELSE [data |-> NullData, error |-> "PGRST116"]

\* The row the store builds for an insert: the supplied fields, a generated
\* id, created_at and updated_at from the store's now(), name null if omitted.
\* The model reads now() as the number of rows inserted before this one.
NewRow(userData, id, now) ==
    [id         |-> id,
     clerkId    |-> userData["clerkId"],
     email      |-> userData["email"],
     name       |-> IF "name" \in DOMAIN userData THEN userData["name"] ELSE Null,
     created_at |-> now,
     updated_at |-> now]

\* A plausible slip: a field the payload omits is written as null.
PatchedNulling(r, userData) ==
    [r EXCEPT
       !.id      = IF "id" \in DOMAIN userData THEN userData["id"] ELSE @,
       !.clerkId = IF "clerkId" \in DOMAIN userData THEN userData["clerkId"] ELSE @,
       !.email   = IF "email" \in DOMAIN userData THEN userData["email"] ELSE @,
       !.name    = IF "name" \in DOMAIN userData THEN userData["name"] ELSE Null,
       !.created_at =
           IF "created_at" \in DOMAIN userData THEN userData["created_at"] ELSE @,
       !.updated_at =
           IF "updated_at" \in DOMAIN userData THEN userData["updated_at"] ELSE @]

\* The row after an update: every field the payload supplies is replaced,
\* the others are kept.  The payload is sent whole, so this is each of the
\* six columns; src/ holds no trigger that would set updated_at itself.
Patched(r, userData) ==
    [r EXCEPT
       !.id      = IF "id" \in DOMAIN userData THEN userData["id"] ELSE @,
       !.clerkId = IF "clerkId" \in DOMAIN userData THEN userData["clerkId"] ELSE @,
       !.email   = IF "email" \in DOMAIN userData THEN userData["email"] ELSE @,
       !.name    = IF "name" \in DOMAIN userData THEN userData["name"] ELSE @,
       !.created_at =
           IF "created_at" \in DOMAIN userData THEN userData["created_at"] ELSE @,
       !.updated_at =
           IF "updated_at" \in DOMAIN userData THEN userData["updated_at"] ELSE @]

(***************************************************************************)
(* The User Record Gateway.  Each operator is the statement of one         *)
(* function as the store runs it: it gives the table after the statement   *)
(* and the pair the store answers with.  The functions have no branch of   *)
(* their own: the pair they return is whatever the store answered (a       *)
(* round trip the transport loses is not modelled here; the GET handler,   *)
(* which branches on it, takes it as an input).                            *)
(***************************************************************************)
\* A plausible slip: the lookup ignores its key.
getUserByClerkIdAnyRow(table, clerkId) ==
    LET r == Single(table)
    IN  [table |-> table, data |-> r.data, error |-> r.error]

getUserByClerkId(table, clerkId) ==
    LET r == Single(EqClerkId(table, clerkId))
    IN  [table |-> table, data |-> r.data, error |-> r.error]

\* A plausible slip: an upsert, which overwrites the row that holds the key.
createUserUpsert(table, userData, id, now) ==
    LET row == NewRow(userData, id, now)
    IN  [table |-> (table \ EqClerkId(table, row.clerkId)) \cup {row},
         data |-> row, error |-> None]

\* A plausible slip: the insert is sent without .select().single(), so a
\* successful insert hands back no row.
createUserNoSelect(table, userData, id, now) ==
    LET row == NewRow(userData, id, now)
    IN  IF ~UniqueClerkId(table \cup {row})
        THEN [table |-> table, data |-> NullData, error |-> "23505"]
        ELSE [table |-> table \cup {row}, data |-> NullData, error |-> None]

createUser(table, userData, id, now) ==
    LET row == NewRow(userData, id, now)
    IN  IF ~UniqueClerkId(table \cup {row})
        THEN [table |-> table, data |-> NullData, error |-> "23505"]
        ELSE LET r == Single({row})
             IN  [table |-> table \cup {row}, data |-> r.data, error |-> r.error]

\* A plausible slip: the .eq filter is left out, so every row is updated.
updateUserNoFilter(table, clerkId, userData) ==
    LET hit == UpdateTargets(table, userData)
        new == {Patched(r, userData) : r \in hit}
        after == (table \ hit) \cup new
    IN  IF ~UniqueClerkId(after) \/ ~PrimaryKeyId(after)
           \/ Cardinality(new) # Cardinality(hit) \/ new \cap (table \ hit) # {}
        THEN [table |-> table, data |-> NullData, error |-> "23505"]
        ELSE LET r == Single(new)
             IN  [table |-> after, data |-> r.data, error |-> r.error]

\* The patched rows must keep clerkId and id unique among themselves and
\* against the rows left alone; otherwise the statement fails and changes
\* nothing.  The table being a set, two rows that come out equal are told
\* by the count of the patched rows and by a patched row that equals a row
\* left alone.
updateUser(table, clerkId, userData) ==
    LET hit == UpdateTargets(EqClerkId(table, clerkId), userData)
        new == {Patched(r, userData) : r \in hit}
        after == (table \ hit) \cup new
    IN  IF ~UniqueClerkId(after) \/ ~PrimaryKeyId(after)
           \/ Cardinality(new) # Cardinality(hit) \/ new \cap (table \ hit) # {}
        THEN [table |-> table, data |-> NullData, error |-> "23505"]
        ELSE LET r == Single(new)
             IN  [table |-> after, data |-> r.data, error |-> r.error]

\* A plausible slip: the delete is never sent.
deleteUserNoop(table, clerkId) ==
    [table |-> table, data |-> NullData, error |-> None]

\* A plausible slip: the delete ends in .select().single(), so a delete that
\* matches no row is an error.
deleteUserSingle(table, clerkId) ==
    LET hit == EqClerkId(table, clerkId)
        r == Single(hit)
    IN  [table |-> table \ hit, data |-> NullData, error |-> r.error]

\* The raw outcome of the delete call: no record, no error.
deleteUser(table, clerkId) ==
    [table |-> table \ EqClerkId(table, clerkId), data |-> NullData, error |-> None]


(***************************************************************************)
(* Module initialization.  The module that exports `supabase` is evaluated *)
(* once; an exception there halts it and nothing that imports it can run.  *)
(* The repository holds two versions of the module.                        *)
(***************************************************************************)
Undefined == "undefined"

EnvValues == {Undefined, "set"}

\* createClient: the constructor refuses a missing url and a missing key.
createClient(supabaseUrl, supabaseKey) ==
    IF supabaseUrl = Undefined
    THEN [client |-> FALSE, error |-> "supabaseUrl is required."]
    ELSE IF supabaseKey = Undefined
    THEN [client |-> FALSE, error |-> "supabaseKey is required."]
    ELSE [client |-> TRUE, error |-> None]

Booted(module, called, c) ==
    [module |-> module, pc |-> IF c.client THEN "ready" ELSE "halted",
     called |-> called, client |-> c.client, error |-> c.error]

\* src/lib/supabase.ts: both values are checked, then the client is built.
InitSupabase(e) ==
    IF e.url = Undefined
    THEN Booted("lib/supabase", FALSE,
                [client |-> FALSE,
                 error |-> "Missing environment variable: NEXT_PUBLIC_SUPABASE_URL"])
    ELSE IF e.key = Undefined
    THEN Booted("lib/supabase", FALSE,
                [client |-> FALSE,
                 error |-> "Missing environment variable: NEXT_PUBLIC_SUPABASE_ANON_KEY"])
    ELSE Booted("lib/supabase", TRUE, createClient(e.url, e.key))

\* The other version: the values are asserted non-null and handed to
\* createClient unchecked.
InitSupabaseAsserted(e) ==
    Booted("asserted", TRUE, createClient(e.url, e.key))

Starting(module) ==
    [module |-> module, pc |-> "start", called |-> FALSE, client |-> FALSE,
     error |-> None]

LoadSupabase ==
    /\ boot.pc = "start"
    /\ boot.module = "lib/supabase"
    /\ boot' = InitSupabase(env)
    /\ UNCHANGED <<env, build, storeVars, gateVars, routeVars>>

LoadSupabaseAsserted ==
    /\ boot.pc = "start"
    /\ boot.module = "asserted"
    /\ boot' = InitSupabaseAsserted(env)
    /\ UNCHANGED <<env, build, storeVars, gateVars, routeVars>>

\* The exported client exists: what imports the module can run.
Ready == boot.client

(***************************************************************************)
(* The gateway calls.  Each function sends one statement to the store and  *)
(* suspends on it; the store runs the statement in one step, at any time;  *)
(* the function then resumes and returns the pair the store answered with. *)
(* Calls of independent requests overlap: between a call and its           *)
(* statement, and between the statement and the return, the statements of  *)
(* other calls run.  A slot holds one call, from the call to the return    *)
(* and until the next call of that slot.  The histories the claims speak   *)
(* of follow the statements as the store runs them; a run keeps the        *)
(* histories its claims read.                                              *)
(***************************************************************************)
CallSlots == {1, 2}

NoCall == [op |-> None, pc |-> "idle", clerkId |-> None, payload |-> <<>>,
           data |-> NullData, error |-> None]

\* The function has built its statement and awaits the store.
Sent(op, clerkId, payload) ==
    [op |-> op, pc |-> "sent", clerkId |-> clerkId, payload |-> payload,
     data |-> NullData, error |-> None]

\* The store has run the statement; its answer is on its way.
AnswerOf(call, r) ==
    [op |-> call.op, pc |-> "answered", clerkId |-> call.clerkId, payload |-> <<>>,
     data |-> r.data, error |-> r.error]

Free(k) == calls[k].pc \in {"idle", "returned"}

Traced(history, new, old) == IF history \in tracing THEN new ELSE old

\* The inserts the store has run and those it has still to run.
InsertsSent ==
    Cardinality({k \in CallSlots : calls[k].pc = "sent" /\ calls[k].op = "create"})

GetUserByClerkId(k, c) ==
    /\ Ready
    /\ Free(k)
    /\ calls' = [calls EXCEPT ![k] = Sent("get", c, <<>>)]
    /\ UNCHANGED <<users, nextId, created, deleted, rekeyed, tracing,
                   gateVars, bootVars, routeVars>>

CreateUser(k, u) ==
    /\ Ready
    /\ Free(k)
    /\ nextId + InsertsSent < MaxInserts
    /\ calls' = [calls EXCEPT ![k] = Sent("create", u["clerkId"], u)]
    /\ UNCHANGED <<users, nextId, created, deleted, rekeyed, tracing,
                   gateVars, bootVars, routeVars>>

UpdateUser(k, c, u) ==
    /\ Ready
    /\ Free(k)
    /\ calls' = [calls EXCEPT ![k] = Sent("update", c, u)]
    /\ UNCHANGED <<users, nextId, created, deleted, rekeyed, tracing,
                   gateVars, bootVars, routeVars>>

DeleteUser(k, c) ==
    /\ Ready
    /\ Free(k)
    /\ calls' = [calls EXCEPT ![k] = Sent("delete", c, <<>>)]
    /\ UNCHANGED <<users, nextId, created, deleted, rekeyed, tracing,
                   gateVars, bootVars, routeVars>>

\* The store runs the select of getUserByClerkId.
StoreSelects(k) ==
    /\ calls[k].pc = "sent"
    /\ calls[k].op = "get"
    /\ LET r == getUserByClerkId(users, calls[k].clerkId)
       IN  /\ users' = r.table
           /\ calls' = [calls EXCEPT ![k] = AnswerOf(calls[k], r)]
    /\ UNCHANGED <<nextId, created, deleted, rekeyed, tracing,
                   gateVars, bootVars, routeVars>>

\* The store runs the insert of createUser.
StoreInserts(k) ==
    /\ calls[k].pc = "sent"
    /\ calls[k].op = "create"
    /\ LET c == calls[k].clerkId
           r == createUser(users, calls[k].payload, nextId + 1, nextId)
       IN  /\ users' = r.table
           /\ nextId' = IF r.error = None THEN nextId + 1 ELSE nextId
           /\ calls' = [calls EXCEPT ![k] = AnswerOf(calls[k], r)]
           /\ created' = Traced("created", IF r.error = None
                                THEN [created EXCEPT ![c] = r.data]
                                ELSE created,
                                created)
           /\ deleted' = Traced("deleted", deleted \ {c}, deleted)
           /\ rekeyed' = Traced("deleted", rekeyed \ {c}, rekeyed)
    /\ UNCHANGED <<tracing, gateVars, bootVars, routeVars>>

\* The store runs the update of updateUser.
StoreUpdates(k) ==
    /\ calls[k].pc = "sent"
    /\ calls[k].op = "update"
    /\ LET c == calls[k].clerkId
           u == calls[k].payload
           r == updateUser(users, c, u)
       IN  /\ users' = r.table
           /\ calls' = [calls EXCEPT ![k] = AnswerOf(calls[k], r)]
           /\ created' = Traced("created", [created EXCEPT ![c] = NullData], created)
           /\ rekeyed' = Traced("deleted", IF "clerkId" \in DOMAIN u /\ u["clerkId"] \in deleted
                                THEN rekeyed \cup {u["clerkId"]}
                                ELSE rekeyed,
                                rekeyed)
    /\ UNCHANGED <<nextId, deleted, tracing, gateVars, bootVars, routeVars>>

\* The store runs the delete of deleteUser.
StoreDeletes(k) ==
    /\ calls[k].pc = "sent"
    /\ calls[k].op = "delete"
    /\ LET c == calls[k].clerkId
           r == deleteUser(users, c)
       IN  /\ users' = r.table
           /\ calls' = [calls EXCEPT ![k] = AnswerOf(calls[k], r)]
           /\ created' = Traced("created", [created EXCEPT ![c] = NullData], created)
           /\ deleted' = Traced("deleted", deleted \cup {c}, deleted)
           /\ rekeyed' = Traced("deleted", rekeyed \ {c}, rekeyed)
    /\ UNCHANGED <<nextId, tracing, gateVars, bootVars, routeVars>>

\* The answer arrives and the function returns it as it is.
Returns(k) ==
    /\ calls[k].pc = "answered"
    /\ calls' = [calls EXCEPT ![k] = [@ EXCEPT !.pc = "returned"]]
    /\ UNCHANGED <<users, nextId, created, deleted, rekeyed, tracing,
                   gateVars, bootVars, routeVars>>

\* Overlapping calls.  A run of calls draws its payloads from part of the
\* payloads of the types: inserts with one email and any name, or with any
\* email and no name; updates of the clerkId, or of the clerkId and the
\* name.  A single call with any payload, on any table, is CallNext.
KeyUpdatePayloads ==
    {u \in UpdatePayloads : DOMAIN u \subseteq {"clerkId"}}

NameKeyUpdatePayloads ==
    {u \in UpdatePayloads : DOMAIN u \subseteq {"clerkId", "name"}}

NamedInsertPayloads ==
    {u \in InsertPayloads : u["email"] = "a@x.com"}

BareInsertPayloads ==
    {u \in InsertPayloads : "name" \notin DOMAIN u}

\* The calls of the slots, with their statements and returns.
GatewayNext(slots, inserts, updates) ==
    \/ \E k \in slots, c \in ClerkIds : GetUserByClerkId(k, c)
    \/ \E k \in slots, u \in inserts : CreateUser(k, u)
    \/ \E k \in slots, c \in ClerkIds, u \in updates : UpdateUser(k, c, u)
    \/ \E k \in slots, c \in ClerkIds : DeleteUser(k, c)
    \/ \E k \in slots : StoreSelects(k)
    \/ \E k \in slots : StoreInserts(k)
    \/ \E k \in slots : StoreUpdates(k)
    \/ \E k \in slots : StoreDeletes(k)
    \/ \E k \in slots : Returns(k)

StoreNext == GatewayNext(CallSlots, NamedInsertPayloads, NameKeyUpdatePayloads)

DeleteNext == GatewayNext(CallSlots, BareInsertPayloads, KeyUpdatePayloads)

\* The rows the table can hold after n inserts: a row as the store built it
\* on insert, with any of its generated columns overwritten by an update
\* since.
StoredRows(n) ==
    UNION { [id         : {k} \cup SuppliedIds,
             clerkId    : ClerkIds,
             email      : Emails,
             name       : Names,
             created_at : {k - 1} \cup SuppliedTimes,
             updated_at : {k - 1} \cup SuppliedTimes] : k \in 1..n }

\* The tables the store can hold after n inserts: the clerkIds being two, at
\* most two rows, under both constraints of the schema.
StoredTables(n) ==
    {{}} \cup { t \in { {r1, r2} : r1 \in StoredRows(n), r2 \in StoredRows(n) } :
                  UniqueClerkId(t) /\ PrimaryKeyId(t) }

\* One gateway call, with any arguments of its type.
NoCallYet == \A k \in CallSlots : calls[k] = NoCall

CallNext ==
    \/ NoCallYet /\ \E c \in ClerkIds : GetUserByClerkId(1, c)
    \/ NoCallYet /\ \E u \in InsertPayloads : CreateUser(1, u)
    \/ NoCallYet /\ \E c \in ClerkIds, u \in UpdatePayloads : UpdateUser(1, c, u)
    \/ NoCallYet /\ \E c \in ClerkIds : DeleteUser(1, c)
    \/ StoreSelects(1)
    \/ StoreInserts(1)
    \/ StoreUpdates(1)
    \/ StoreDeletes(1)
    \/ Returns(1)

(***************************************************************************)
(* The GET route handlers.  A handler runs as its own task and suspends    *)
(* twice: on auth(), which gives the subject id of the session or none,    *)
(* and on the client's select on `users`.  The select is one statement at  *)
(* the store: it reads the table when the store runs it, and its `outcome` *)
(* is the rows, an error it returns, or an exception the client throws.    *)
(* The answer then travels back and the handler resumes with it.  While a  *)
(* handler is suspended, and while an answer travels, other invocations    *)
(* and the gateway run: the table may change before and after the read.    *)
(* Each slot holds one invocation and keeps its response until the slot    *)
(* is freed.                                                               *)
(***************************************************************************)
GetSlots == {1, 2}

\* What auth() settles to: no subject, or the subject id of the session.
\* The handlers only test it against null, so one subject id stands for all.
Subjects == {None, "c1"}

ErrorCodes == {"PGRST116", "23505", "fetch failed"}

Outcomes ==
    [kind : {"ok"}, code : {None}] \cup [kind : {"error", "throw"}, code : ErrorCodes]

NoOutcome == [kind |-> None, code |-> None]

\* The result of a handler before it has one.
NoResult == [status |-> 0, body |-> None, rows |-> {},
             queried |-> FALSE, uncaught |-> FALSE]

NoInvocation == [handler |-> None, pc |-> "idle", userId |-> None,
                 outcome |-> NoOutcome, read |-> {}, result |-> NoResult]

Unauthorized == [status |-> 401, body |-> "Unauthorized", rows |-> {},
                 queried |-> FALSE, uncaught |-> FALSE]

InternalServerError == [status |-> 500, body |-> "Internal Server Error", rows |-> {},
                        queried |-> TRUE, uncaught |-> FALSE]

\* No response yet: the select is sent and the handler waits for it.
AwaitingSelect == [status |-> 0, body |-> None, rows |-> {},
                   queried |-> TRUE, uncaught |-> FALSE]

\* supabase.from('users').select('*'), on the rows the store read.
SelectAll(table, outcome) ==
    IF outcome.kind = "ok"
    THEN [data |-> table, error |-> None, thrown |-> FALSE]
    ELSE [data |-> None, error |-> outcome.code, thrown |-> outcome.kind = "throw"]

\* A plausible slip: the query is sent before the session is looked at.
GETQueryFirst(userId) == AwaitingSelect

\* The handler that selects every row, from auth() settling to the select:
\* without a subject it answers 401, with one it sends the select.
GET(userId) ==
    IF userId = None THEN Unauthorized ELSE AwaitingSelect

\* A plausible slip: only returned errors are handled, and not-found is told
\* apart from the other kinds.
GETNoCatch(q) ==
    IF q.thrown
    THEN [status |-> 0, body |-> None, rows |-> {},
          queried |-> TRUE, uncaught |-> TRUE]
    ELSE IF q.error = "PGRST116"
    THEN [InternalServerError EXCEPT !.status = 404, !.body = "Not Found"]
    ELSE IF q.error # None
    THEN InternalServerError
    ELSE [status |-> 200, body |-> "json", rows |-> q.data,
          queried |-> TRUE, uncaught |-> FALSE]

\* The same handler from the select settling: an exception of the client
\* and an error it returns (rethrown by the handler) both end in the catch
\* block; otherwise the rows are the body.
GETResumed(q) ==
    IF q.thrown \/ q.error # None
    THEN InternalServerError
    ELSE [status |-> 200, body |-> "json", rows |-> q.data,
          queried |-> TRUE, uncaught |-> FALSE]

\* The handler of /api/protected from auth() settling: its query is
\* commented out, so with a session it falls off its end and returns no
\* Response (status 0).
GETProtected(userId) ==
    IF userId = None
    THEN Unauthorized
    ELSE [status |-> 0, body |-> None, rows |-> {},
          queried |-> FALSE, uncaught |-> FALSE]

\* GET /api/users is invoked and suspends on auth().  Its module uses the
\* client, so it is loaded only after lib/supabase.
GetUsers(i) ==
    /\ Ready
    /\ inflight[i].pc = "idle"
    /\ inflight' = [inflight EXCEPT ![i] =
                       [NoInvocation EXCEPT !.handler = "users", !.pc = "auth"]]
    /\ UNCHANGED <<storeVars, gateVars, bootVars>>

\* GET /api/protected is invoked and suspends on auth().  Its module
\* imports `supabase` from lib/supabase (line 3) and, its query being
\* commented out, never uses it.  With the import kept, as the file runs as
\* written, the route loads only after lib/supabase has, and so only with the
\* client.  A TypeScript build that drops imports never used as a value
\* (tsc, SWC) leaves the route without lib/supabase: it then runs whatever
\* became of the client.
Builds == {"kept", "elided"}

GetProtected(i) ==
    /\ build = "kept" => Ready
    /\ inflight[i].pc = "idle"
    /\ inflight' = [inflight EXCEPT ![i] =
                       [NoInvocation EXCEPT !.handler = "protected", !.pc = "auth"]]
    /\ UNCHANGED <<storeVars, gateVars, bootVars>>

\* auth() settles and the handler resumes: it returns, or sends its select
\* and suspends again.
AuthSettles(i, userId) ==
    /\ inflight[i].pc = "auth"
    /\ LET h == inflight[i].handler
           r == IF h = "users" THEN GET(userId) ELSE GETProtected(userId)
       IN  inflight' = [inflight EXCEPT ![i] =
               IF r = AwaitingSelect
               THEN [@ EXCEPT !.pc = "select", !.userId = userId]
               ELSE [@ EXCEPT !.pc = "returned", !.userId = userId, !.result = r]]
    /\ UNCHANGED <<storeVars, gateVars, bootVars>>

\* The store runs the select (or the request fails): with outcome ok it
\* reads the table as it is now.  The answer is on its way to the handler.
SelectRuns(i, outcome) ==
    /\ inflight[i].pc = "select"
    /\ inflight' = [inflight EXCEPT ![i] =
                       [@ EXCEPT !.pc = "answer", !.outcome = outcome,
                                 !.read = IF outcome.kind = "ok" THEN users ELSE {}]]
    /\ UNCHANGED <<storeVars, gateVars, bootVars>>

\* The answer arrives and the handler resumes to its end.
SelectSettles(i) ==
    /\ inflight[i].pc = "answer"
    /\ inflight' = [inflight EXCEPT ![i] =
                       [@ EXCEPT !.pc = "returned", !.read = {},
                                 !.result = GETResumed(SelectAll(inflight[i].read,
                                                                inflight[i].outcome))]]
    /\ UNCHANGED <<storeVars, gateVars, bootVars>>

\* The response is sent and the slot is free for the next invocation.
EndGet(i) ==
    /\ inflight[i].pc = "returned"
    /\ inflight' = [inflight EXCEPT ![i] = NoInvocation]
    /\ UNCHANGED <<storeVars, gateVars, bootVars>>

\* The gateway calls made while handlers run take one slot.  The handlers
\* send the rows as they are, so the rows here differ in id and clerkId
\* only: the inserts name no name, the updates set the clerkId or clear the
\* name.
RouteInsertPayloads ==
    {u \in BareInsertPayloads : u["email"] = "a@x.com"}

RouteUpdatePayloads ==
    {u \in NameKeyUpdatePayloads : "name" \in DOMAIN u => u["name"] = Null}

RouteCallSlots == {1}

RouteNext ==
    \/ \E i \in GetSlots : GetUsers(i)
    \/ \E i \in GetSlots : GetProtected(i)
    \/ \E i \in GetSlots, userId \in Subjects : AuthSettles(i, userId)
    \/ \E i \in GetSlots, outcome \in Outcomes : SelectRuns(i, outcome)
    \/ \E i \in GetSlots : SelectSettles(i)
    \/ \E i \in GetSlots : EndGet(i)
    \/ GatewayNext(RouteCallSlots, RouteInsertPayloads, RouteUpdatePayloads)

\* The state after construction; `t` names the histories that are kept.
Started(t) ==
    /\ gpc = [i \in RequestSlots |-> "idle"]
    /\ req = [i \in RequestSlots |-> NoRequest]
    /\ protectCalled = [i \in RequestSlots |-> FALSE]
    /\ calls = [k \in CallSlots |-> NoCall]
    /\ created = [c \in ClerkIds |-> NullData]
    /\ deleted = {}
    /\ rekeyed = {}
    /\ tracing = t
    /\ inflight = [i \in GetSlots |-> NoInvocation]

\* The module has loaded with both values set; the table is empty.
Loaded ==
    /\ users = {}
    /\ nextId = 0
    /\ env = [url |-> "set", key |-> "set"]
    /\ build = "kept"
    /\ boot = InitSupabase(env)

Init == Started({"created"}) /\ Loaded

InitDelete == Started({"deleted"}) /\ Loaded

InitRoute == Started({}) /\ Loaded

\* The process starts: any environment, either build, either version of the
\* module.
InitBoot ==
    /\ Started({})
    /\ users = {}
    /\ nextId = 0
    /\ env \in [url : EnvValues, key : EnvValues]
    /\ build \in Builds
    /\ boot \in {Starting("lib/supabase"), Starting("asserted")}

\* The store holds any table it can hold; no call has been made yet.
InitCall ==
    /\ Started({})
    /\ nextId \in 0..MaxInserts
    /\ users \in StoredTables(nextId)
    /\ env = [url |-> "set", key |-> "set"]
    /\ build = "kept"
    /\ boot = InitSupabase(env)

BootNext ==
    \/ LoadSupabase
    \/ LoadSupabaseAsserted
    \/ RouteNext

SpecGate == Init /\ [][GateNext]_vars

Spec == Init /\ [][StoreNext]_vars

SpecDelete == InitDelete /\ [][DeleteNext]_vars

SpecCall == InitCall /\ [][CallNext]_vars

SpecRoute == InitRoute /\ [][RouteNext]_vars

SpecBoot == InitBoot /\ [][BootNext]_vars

(***************************************************************************)
(* The claims.                                                             *)
(***************************************************************************)
\* What the claims call a public path: "/" itself, and "/sign-in", "/sign-up"
\* and "/api/public" with anything after them.
PublicPath(p) ==
    \/ p = <<"/">>
    \/ Len(p) >= 2 /\ p[1] = "/" /\ p[2] \in {"sign-in", "sign-up"}
    \/ Len(p) >= 4 /\ p[1] = "/" /\ p[2] = "api" /\ p[3] = "/" /\ p[4] = "public"

GateDecided(i) == gpc[i] \in {"proceed", "rejected", "handled"}

\* C1 as stated: on every path that matches no public pattern, a request
\* without a valid session never gets to a handler.
C1_AsStated ==
    \A i \in RequestSlots :
        (gpc[i] \in {"proceed", "handled"} /\ ~PublicPath(req[i].path))
            => req[i].session

\* C1, amended: on every path config.matcher selects and that matches no
\* public pattern, a request without a valid session is rejected by the gate
\* and never gets to a handler, whatever the other requests in flight do.
C1_ProtectedNeedsSession ==
    \A i \in RequestSlots :
        (/\ GateDecided(i)
         /\ MatcherSelects(req[i].path)
         /\ ~PublicPath(req[i].path)
         /\ ~req[i].session)
            => (gpc[i] = "rejected" /\ protectCalled[i])

\* A request without a session is rejected on /api/x while another, with a
\* session, has passed the gate on a protected path.
C1_Witness ==
    /\ gpc[1] = "rejected"
    /\ req[1].path = <<"/", "api", "/", "x">>
    /\ ~req[1].session
    /\ gpc[2] = "handled"
    /\ req[2].path = <<"/", "x">>
    /\ protectCalled[2]

\* C2: on every path that matches a public pattern, sub-paths of the
\* wildcard patterns included, the gate lets the request proceed and does
\* not call auth.protect(), with or without a session.
C2_PublicProceeds ==
    \A i \in RequestSlots :
        /\ PublicPath(req[i].path) => (gpc[i] \notin {"protecting", "rejected"})
        /\ (gpc[i] # "idle" /\ PublicPath(req[i].path)) => ~protectCalled[i]

\* A request without a session is handled on /sign-in/x while another
\* waits for auth.protect() to settle.
C2_Witness ==
    /\ gpc[1] = "handled"
    /\ req[1].path = <<"/", "sign-in", "/", "x">>
    /\ ~req[1].session
    /\ ~protectCalled[1]
    /\ gpc[2] = "protecting"

Answered(i) == inflight[i].pc = "returned"

\* C3: with no authenticated subject id the GET handler answers 401 with the
\* plain text "Unauthorized" and sends no query to the store.
C3_NoSubject401 ==
    \A i \in GetSlots :
        /\ (Answered(i) /\ inflight[i].userId = None)
              => /\ inflight[i].result.status = 401
                 /\ inflight[i].result.body = "Unauthorized"
                 /\ ~inflight[i].result.queried
        /\ inflight[i].pc \in {"select", "answer"} => inflight[i].userId # None

\* The 401 is answered while the table holds a row and the answer to the
\* select of another invocation, read before the table changed, is on its
\* way.
C3_Witness ==
    /\ Answered(1)
    /\ inflight[1].handler = "users"
    /\ inflight[1].userId = None
    /\ inflight[1].result.status = 401
    /\ users # {}
    /\ inflight[2].pc = "answer"
    /\ inflight[2].outcome.kind = "ok"
    /\ inflight[2].read # users

\* C4 as stated: the select of an authenticated GET reads every row the
\* table holds when the store runs it, and the GET ends in 200 with those
\* rows, or in 500, and in 200 whenever the select succeeds.
C4_AsStated ==
    [][\A i \in GetSlots :
          /\ (inflight[i].pc = "select" /\ inflight'[i].pc = "answer"
                 /\ inflight'[i].outcome.kind = "ok")
                => inflight'[i].read = users
          /\ (~Answered(i) /\ Answered(i)' /\ inflight'[i].userId # None)
                => /\ \/ /\ inflight'[i].result.status = 200
                         /\ inflight'[i].result.body = "json"
                         /\ inflight[i].pc = "answer"
                         /\ inflight'[i].result.rows = inflight[i].read
                      \/ inflight'[i].result.status = 500
                   /\ inflight'[i].outcome.kind \notin {"error", "throw"}
                        => inflight'[i].result.status = 200]_vars

\* C5: for an authenticated GET every error of the remote query, whatever
\* its kind and whether returned or thrown, ends in the same 500 "Internal
\* Server Error", and none leaves the handler uncaught.
C5_EveryErrorIs500 ==
    \A i \in GetSlots :
        (Answered(i) /\ inflight[i].userId # None
            /\ inflight[i].outcome.kind \in {"error", "throw"})
            => /\ inflight[i].result.status = 500
               /\ inflight[i].result.body = "Internal Server Error"
               /\ ~inflight[i].result.uncaught

C5_Witness ==
    /\ Answered(1)
    /\ inflight[1].handler = "users"
    /\ inflight[1].userId = "c1"
    /\ inflight[1].outcome = [kind |-> "throw", code |-> "fetch failed"]
    /\ inflight[1].result.status = 500
    /\ users # {}

\* The store runs the statement of the call in slot k.
Ran(k, op) ==
    calls[k].pc = "sent" /\ calls[k].op = op /\ calls'[k].pc = "answered"

\* The function of slot k returns, and returns the pair the store answered.
ReturnsAnswer(k) ==
    (calls[k].pc = "answered" /\ calls'[k].pc = "returned")
        => /\ calls'[k].data = calls[k].data
           /\ calls'[k].error = calls[k].error
           /\ users' = users

HasRow(table, clerkId) == \E r \in table : r.clerkId = clerkId

\* C6: a successful createUser returns a row with the clerkId, email and
\* name it was given, and a getUserByClerkId of that clerkId that the store
\* runs later, with no updateUser or deleteUser of it run in between,
\* returns that same row (id and created_at included) and no error.
C6_CreateThenFetch ==
    [][\A k \in CallSlots :
          /\ (Ran(k, "create") /\ calls'[k].error = None)
                => /\ calls'[k].data \in users'
                   /\ calls'[k].data.clerkId = calls[k].payload["clerkId"]
                   /\ calls'[k].data.email = calls[k].payload["email"]
                   /\ calls'[k].data.name = IF "name" \in DOMAIN calls[k].payload
                                           THEN calls[k].payload["name"] ELSE Null
          /\ (Ran(k, "get") /\ created[calls[k].clerkId] # NullData)
                => /\ calls'[k].error = None
                   /\ calls'[k].data = created[calls[k].clerkId]
          /\ ReturnsAnswer(k)]_vars

\* getUserByClerkId has returned the created row while another call is on
\* its way.
C6_Witness ==
    /\ calls[1].op = "get"
    /\ calls[1].pc = "returned"
    /\ created[calls[1].clerkId] # NullData
    /\ calls[1].data = created[calls[1].clerkId]
    /\ Cardinality(users) = 2
    /\ calls[2].pc = "sent"

\* C7: getUserByClerkId of a clerkId that no row holds when the store runs
\* the select returns an error and a null record.
C7_FetchMissing ==
    [][\A k \in CallSlots :
          /\ (Ran(k, "get") /\ ~HasRow(users, calls[k].clerkId))
                => (calls'[k].error # None /\ calls'[k].data = NullData)
          /\ ReturnsAnswer(k)]_vars

\* getUserByClerkId has returned not-found, and a createUser the store ran
\* after the select has put a row of that clerkId in the table since.
C7_Witness ==
    /\ calls[1].op = "get"
    /\ calls[1].pc = "returned"
    /\ calls[1].error = "PGRST116"
    /\ calls[1].data = NullData
    /\ calls[2].op = "create"
    /\ calls[2].pc = "answered"
    /\ calls[2].data \in users
    /\ calls[2].data.clerkId = calls[1].clerkId

\* C8: createUser with a clerkId some row holds when the store runs the
\* insert returns an error and a null record and leaves the table as it was.
C8_DuplicateCreate ==
    [][\A k \in CallSlots :
          /\ (Ran(k, "create") /\ HasRow(users, calls[k].clerkId))
                => /\ calls'[k].error # None
                   /\ calls'[k].data = NullData
                   /\ users' = users
          /\ ReturnsAnswer(k)]_vars

C8_Witness ==
    /\ calls[1].op = "create"
    /\ calls[1].pc = "returned"
    /\ calls[1].error = "23505"
    /\ calls[1].data = NullData
    /\ HasRow(users, calls[1].clerkId)
    /\ nextId = 1

\* C9: updateUser of a clerkId that no row holds returns an error and a null
\* record and leaves the table as it was.
C9_UpdateMissing ==
    [][\A k \in CallSlots :
          /\ (Ran(k, "update") /\ ~HasRow(users, calls[k].clerkId))
                => /\ calls'[k].error # None
                   /\ calls'[k].data = NullData
                   /\ users' = users
          /\ ReturnsAnswer(k)]_vars

C9_Witness ==
    /\ calls[1].op = "update"
    /\ calls[1].pc = "returned"
    /\ users # {}
    /\ ~HasRow(users, calls[1].clerkId)
    /\ calls[1].error # None
    /\ calls[1].data = NullData

\* C10 as stated: after deleteUser of a clerkId, every getUserByClerkId of it
\* with no createUser of it in between returns an error and a null record.
C10_AsStated ==
    [][\A k \in CallSlots :
          (Ran(k, "get") /\ calls[k].clerkId \in deleted)
              => (calls'[k].error # None /\ calls'[k].data = NullData)]_vars

\* C10, amended: after deleteUser of a clerkId, every getUserByClerkId of it
\* returns an error and a null record, as long as in between the store ran
\* no createUser of it and no updateUser whose fields set clerkId to it.
C10_DeleteThenFetch ==
    [][\A k \in CallSlots :
          /\ (Ran(k, "get") /\ calls[k].clerkId \in deleted
                 /\ calls[k].clerkId \notin rekeyed)
                => (calls'[k].error # None /\ calls'[k].data = NullData)
          /\ ReturnsAnswer(k)]_vars

C10_Witness ==
    /\ calls[1].op = "get"
    /\ calls[1].pc = "returned"
    /\ calls[1].clerkId \in deleted
    /\ calls[1].clerkId \notin rekeyed
    /\ nextId = 2
    /\ Cardinality(users) = 1
    /\ calls[1].error = "PGRST116"

\* C11: a successful updateUser returns the row after the update: the
\* fields the payload supplies hold the supplied values, every field it
\* omits holds what the row held before, and every other row of the table
\* is as it was.
C11_UpdatePatches ==
    [][\A k \in CallSlots :
          /\ (Ran(k, "update") /\ calls'[k].error = None)
                => LET payload == calls[k].payload
                       data == calls'[k].data
                   IN  \E old \in users :
                          /\ old.clerkId = calls[k].clerkId
                          /\ data \in users'
                          /\ users' \ {data} = users \ {old}
                          /\ data.clerkId = IF "clerkId" \in DOMAIN payload
                                            THEN payload["clerkId"] ELSE old.clerkId
                          /\ data.email = IF "email" \in DOMAIN payload
                                          THEN payload["email"] ELSE old.email
                          /\ data.name = IF "name" \in DOMAIN payload
                                         THEN payload["name"] ELSE old.name
                          /\ data.id = IF "id" \in DOMAIN payload
                                       THEN payload["id"] ELSE old.id
                          /\ data.created_at = IF "created_at" \in DOMAIN payload
                                               THEN payload["created_at"]
                                               ELSE old.created_at
                          /\ data.updated_at = IF "updated_at" \in DOMAIN payload
                                               THEN payload["updated_at"]
                                               ELSE old.updated_at
          /\ ReturnsAnswer(k)]_vars

\* updateUser has returned a row whose email and updated_at it set and
\* whose name, id and created_at are as the insert left them.
C11_Witness ==
    /\ calls[1].op = "update"
    /\ calls[1].pc = "returned"
    /\ calls[1].error = None
    /\ calls[1].data \in users
    /\ Cardinality(users) = 2
    /\ calls[1].data.email = "b@x.com"
    /\ calls[1].data.updated_at \in SuppliedTimes
    /\ calls[1].data.name = "A"
    /\ calls[1].data.id \notin SuppliedIds
    /\ calls[1].data.created_at \notin SuppliedTimes

\* C12: the pair getUserByClerkId, createUser and updateUser return holds
\* exactly one of record and error: never both, and a record whenever there
\* is no error.
C12_ExactlyOnePopulated ==
    \A k \in CallSlots :
        (calls[k].pc \in {"answered", "returned"}
            /\ calls[k].op \in {"get", "create", "update"})
            => /\ ~(calls[k].data # NullData /\ calls[k].error # None)
               /\ calls[k].error = None => calls[k].data # NullData

C12_Witness ==
    /\ calls[1].op = "create"
    /\ calls[1].pc = "returned"
    /\ calls[1].error = None
    /\ calls[1].data \in users
    /\ Cardinality(users) = 2

\* C15: deleteUser returns the same pair, no record and no error, whether it
\* removed a row or matched none; it removes the rows of its clerkId and no
\* other, so with none matching the table is as it was, and deleting the
\* same clerkId once more changes nothing.
C15_DeleteOutcome ==
    [][\A k \in CallSlots :
          /\ Ran(k, "delete")
                => /\ calls'[k].error = None
                   /\ calls'[k].data = NullData
                   /\ users' = {r \in users : r.clerkId # calls[k].clerkId}
                   /\ ~HasRow(users, calls[k].clerkId) => users' = users
                   /\ deleteUser(users', calls[k].clerkId).table = users'
          /\ ReturnsAnswer(k)]_vars

\* deleteUser of a clerkId no row held has returned, the table being as it
\* was, while a createUser of that clerkId awaits the store.
C15_Witness ==
    /\ calls[1].op = "delete"
    /\ calls[1].pc = "returned"
    /\ calls[1].error = None
    /\ calls[1].data = NullData
    /\ users # {}
    /\ ~HasRow(users, calls[1].clerkId)
    /\ nextId = 1
    /\ calls[2].op = "create"
    /\ calls[2].pc = "sent"
    /\ calls[2].clerkId = calls[1].clerkId

====
